---- MODULE Spec2Model ----
(***************************************************************************)
(* Model of the two Microsoft Graph demo scripts:                          *)
(*   graph_demo.py         (dashboard flow: auth, /me, folder, list,       *)
(*                          classify, render)                              *)
(*   create_test_emails.py (seeder flow: CSV check, auth, folder, create)  *)
(* Text is modelled as sequences of one-character strings.                 *)
(***************************************************************************)
EXTENDS Integers, Sequences, FiniteSets, TLC

VARIABLES
    script,            \* which entry point runs: "dashboard" | "seeder" | "classify"
    pc,                \* position of the running script
    csv_exists,        \* os.path.exists(CSV_FILE); only the seeder has a CSV_FILE
    template_exists,   \* os.path.isfile(TEMPLATE_FILE); only the dashboard has one
    authority,         \* index of the authority the for-loop is at (1-based)
    last_error_detail, \* local of acquire_token_with_diagnostics
    token,             \* the access token returned, "None" before
    trace,             \* every external call made so far, in order
    error,             \* the exception that ended the run, NoError if none
    reported,          \* the "ERROR: ..." line main printed, "" if none
    folder_id,         \* result of the folder resolver
    msgs,              \* messages returned by _list_messages
    messages,          \* dashboard rows built by main
    out_file,          \* content written to OUT_FILE
    written,           \* OUT_FILE has been written
    rows,              \* rows the csv.DictReader yields
    posted,            \* payloads POSTed by create_email_in_folder, in order
    created_count,     \* local of parse_csv_and_create_emails
    failed_count,      \* local of parse_csv_and_create_emails
    folder_resp,       \* the "value" list of the folder lookup response
    tpl,               \* content read from TEMPLATE_FILE
    msg,               \* input of _classify (classifier specification)
    label              \* output of _classify (classifier specification)

vars == <<script, pc, csv_exists, template_exists, authority, last_error_detail,
          token, trace, error, reported, folder_id, msgs, messages, out_file,
          written, rows, posted, created_count, failed_count, folder_resp, tpl,
          msg, label>>

(***************************************************************************)
(* Bounds                                                                  *)
(***************************************************************************)
MaxFrags == 3

MaxMsgs == 2

MaxFolders == 2

MaxRows == 2

(***************************************************************************)
(* Program constants                                                       *)
(***************************************************************************)
AUTHORITIES == <<"consumers", "common">>

DEMO_FOLDER_NAME == <<"D","E","M","O"," ","f","o","r"," ","P","N","C">>

FILED_KEYWORDS ==
    { <<"q","u","o","t","e">>,
      <<"p","o","l","i","c","y">>,
      <<"b","i","n","d","e","r">>,
      <<"e","n","d","o","r","s","e","m","e","n","t">> }

CLAIM_KEYWORD == <<"c","l","a","i","m">>

(***************************************************************************)
(* Text helpers                                                            *)
(***************************************************************************)
UpperLetters == <<"A","B","C","D","E","F","G","H","I","J","K","L","M",
                  "N","O","P","Q","R","S","T","U","V","W","X","Y","Z">>

LowerLetters == <<"a","b","c","d","e","f","g","h","i","j","k","l","m",
                  "n","o","p","q","r","s","t","u","v","w","x","y","z">>

\* str.lower() on one character
LowerChar(c) ==
    IF \E i \in 1..Len(UpperLetters) : UpperLetters[i] = c
    THEN LowerLetters[CHOOSE i \in 1..Len(UpperLetters) : UpperLetters[i] = c]
    ELSE c

\* str.lower()
lower(s) == [i \in 1..Len(s) |-> LowerChar(s[i])]

\* k in s  (substring containment)
Contains(s, k) ==
    \E i \in 0..(Len(s) - Len(k)) : SubSeq(s, i + 1, i + Len(k)) = k

SeqsUpTo(S, n) == UNION { [1..m -> S] : m \in 0..n }

(***************************************************************************)
(* Message records.  A Graph message dict is modelled by                   *)
(*   subject_kind : "absent" (no key) | "null" (None) | "str"              *)
(*   subject      : the text when subject_kind = "str"                     *)
(*   attach       : "absent" | "null" | "true" | "false"                   *)
(***************************************************************************)
\* msg.get("subject") or ""
subject_or_empty(m) ==
    IF m.subject_kind = "str" THEN m.subject ELSE <<>>

\* bool(msg.get("hasAttachments"))
has_attach(m) == m.attach = "true"

_classify_triage_first(m) ==
    LET subject == lower(subject_or_empty(m))
    IN  IF has_attach(m) \/ Contains(subject, CLAIM_KEYWORD) THEN "triage"
        ELSE IF \E k \in FILED_KEYWORDS : Contains(subject, k) THEN "filed"
        ELSE "skipped"

_classify(m) ==
    LET subject == lower(subject_or_empty(m))
    IN  IF \E k \in FILED_KEYWORDS : Contains(subject, k) THEN "filed"
        ELSE IF has_attach(m) \/ Contains(subject, CLAIM_KEYWORD) THEN "triage"
        ELSE "skipped"

(***************************************************************************)
(* Inputs of the classifier specification: subjects are concatenations of  *)
(* up to MaxFrags fragments, so keywords appear whole, split across        *)
(* fragments, in mixed case, and next to each other.                       *)
(***************************************************************************)
Fragments ==
    { <<"Q","u","o","t">>, <<"e">>,
      <<"P","O","L","I","C","Y">>,
      <<"b","i","n","d","e","r">>,
      <<"E","n","d","o","r","s","e","m","e","n","t">>,
      <<"C","l">>, <<"a","i","m">>,
      <<"c","l","a","i","m">>,
      <<" ">>, <<"x">> }

RECURSIVE Subjects(_)
Subjects(n) ==
    IF n = 0 THEN { <<>> }
    ELSE LET prev == Subjects(n - 1)
         IN  prev \cup { s \o f : s \in prev, f \in Fragments }

AttachValues == {"absent", "null", "true", "false"}

MsgInputs ==
    { [subject_kind |-> "str", subject |-> s, attach |-> a] :
          s \in Subjects(MaxFrags), a \in AttachValues }
    \cup
    { [subject_kind |-> k, subject |-> <<>>, attach |-> a] :
          k \in {"absent", "null"}, a \in AttachValues }

NoMsg == [subject_kind |-> "absent", subject |-> <<>>, attach |-> "absent"]

(***************************************************************************)
(* Values                                                                  *)
(***************************************************************************)
NoDetail == [k |-> 0, cause |-> "None"]

NoError == [type |-> "None", path |-> "", status |-> 0, text |-> "",
            detail |-> NoDetail, hints |-> {}]

\* one entry of trace: an external call, the authority it was made against
\* (0 when it is not an auth call), what it returned, and the HTTP status
\* (0 when it is not an HTTP request)
Call(op, k, res, code) == [op |-> op, k |-> k, res |-> res, code |-> code]

AccountsResults == {"none", "some"}

\* acquire_token_silent: a dict with access_token; a falsy result or a dict
\* without access_token (both fail "result and 'access_token' in result");
\* or a raised exception
SilentResults == {"token", "no_token", "exception"}

\* initiate_device_flow: a raised exception, a dict without user_code that
\* carries error/error_description, one that carries neither, or a flow
InitResults == {"exception", "error", "bare", "user_code"}

\* acquire_token_by_device_flow: a dict with access_token or with error
DeviceResults == {"token", "error"}

\* requests' Response objects the Graph API may answer a GET with
GetResponses ==
    { [status_code |-> 200, text |-> "json"],
      [status_code |-> 403, text |-> "Forbidden"],
      [status_code |-> 500, text |-> "Server Error"] }

\* ... and a POST; json_truthy tells whether r.json() is a non-empty dict
PostResponses ==
    { [status_code |-> 201, text |-> "json", json_truthy |-> TRUE],
      [status_code |-> 201, text |-> "{}", json_truthy |-> FALSE],
      [status_code |-> 400, text |-> "Bad Request", json_truthy |-> TRUE] }

FolderIds == {"f1", "f2"}

MsgPool ==
    { [subject_kind |-> "str", attach |-> "true",
       subject |-> <<"<","Q","u","o","t","e",">">>],
      [subject_kind |-> "str", attach |-> "false",
       subject |-> <<"C","l","a","i","m","&">>],
      [subject_kind |-> "null", attach |-> "false", subject |-> <<>>] }

CsvRows ==
    { [Date |-> "2024-01-02", FromEmail |-> "a@x", FromName |-> "A",
       Subject |-> "Quote", Body |-> "b1"],
      [Date |-> "2024-03-04", FromEmail |-> "b@x", FromName |-> "B",
       Subject |-> "Lunch", Body |-> "b2"] }

(***************************************************************************)
(* acquire_token_with_diagnostics (the same loop in both scripts)          *)
(***************************************************************************)
\* result and "access_token" in result
silent_yields_token(res) == res = "token"

after_silent_advances(res, k) ==
    IF silent_yields_token(res) THEN [pc |-> "authed", authority |-> k]
    ELSE IF res = "exception" THEN [pc |-> "try_authority", authority |-> k + 1]
    ELSE [pc |-> "initiate", authority |-> k]

\* where the loop goes after acquire_token_silent returned or raised
after_silent(res, k) ==
    IF silent_yields_token(res) THEN [pc |-> "authed", authority |-> k]
    ELSE [pc |-> "initiate", authority |-> k]

after_device_flow_no_return(res, k) ==
    [pc |-> "try_authority", authority |-> k + 1]

\* where the loop goes after acquire_token_by_device_flow returned
after_device_flow(res, k) ==
    IF res = "token" THEN [pc |-> "authed", authority |-> k]
    ELSE [pc |-> "try_authority", authority |-> k + 1]

\* last_error_detail set when initiate_device_flow gave no user code
init_error_detail(res, k) ==
    [k |-> k,
     cause |-> CASE res = "exception" -> "initiate_device_flow exception"
                 [] res = "error" -> "error: description"
                 [] OTHER -> "unknown_error: No description"]

FIX_CHECKLIST == {"public_client_flows", "personal_accounts", "client_id", "scopes"}

\* the RuntimeError raised after the for-loop
auth_failure(s, detail) ==
    IF s = "dashboard"
    THEN [type |-> "RuntimeError", path |-> "", status |-> 0,
          text |-> "Failed to create/complete device flow.",
          detail |-> IF detail = NoDetail
                     THEN [k |-> 0, cause |-> "no additional info"]
                     ELSE detail,
          hints |-> FIX_CHECKLIST]
    ELSE [type |-> "RuntimeError", path |-> "", status |-> 0,
          text |-> "Failed to acquire token.",
          detail |-> detail, hints |-> {}]

\* for authority in AUTHORITIES: print, build the app, app.get_accounts()
TryAuthority ==
    /\ pc = "try_authority"
    /\ authority <= Len(AUTHORITIES)
    /\ \E accounts \in AccountsResults :
          /\ trace' = Append(trace, Call("get_accounts", authority, accounts, 0))
          /\ pc' = IF accounts = "some" THEN "silent" ELSE "initiate"
    /\ UNCHANGED <<script, csv_exists, template_exists, authority,
                   last_error_detail, token, error, reported, folder_id, msgs,
                   messages, out_file, written, rows, posted, created_count,
                   failed_count, folder_resp, tpl, msg, label>>

\* app.acquire_token_silent(SCOPES, account=accounts[0]) inside try/except
AcquireSilent ==
    /\ pc = "silent"
    /\ \E res \in SilentResults :
          /\ trace' = Append(trace, Call("acquire_token_silent", authority, res, 0))
          /\ pc' = after_silent(res, authority).pc
          /\ authority' = after_silent(res, authority).authority
          /\ token' = IF silent_yields_token(res) THEN "access_token" ELSE token
    /\ UNCHANGED <<script, csv_exists, template_exists, last_error_detail,
                   error, reported, folder_id, msgs, messages, out_file,
                   written, rows, posted, created_count, failed_count,
                   folder_resp, tpl, msg, label>>

\* app.initiate_device_flow(scopes=SCOPES) and the "user_code" not in flow test
InitiateDeviceFlow ==
    /\ pc = "initiate"
    /\ \E res \in InitResults :
          /\ trace' = Append(trace, Call("initiate_device_flow", authority, res, 0))
          /\ IF res = "user_code"
             THEN /\ pc' = "device_wait"
                  /\ UNCHANGED <<authority, last_error_detail>>
             ELSE /\ last_error_detail' = init_error_detail(res, authority)
                  /\ authority' = authority + 1
                  /\ pc' = "try_authority"
    /\ UNCHANGED <<script, csv_exists, template_exists, token, error, reported,
                   folder_id, msgs, messages, out_file, written, rows, posted,
                   created_count, failed_count, folder_resp, tpl, msg, label>>

\* print(flow["message"]); app.acquire_token_by_device_flow(flow)
DeviceFlowWait ==
    /\ pc = "device_wait"
    /\ \E res \in DeviceResults :
          /\ trace' = trace \o
                 << Call("print_message", authority, "message", 0),
                    Call("acquire_token_by_device_flow", authority, res, 0) >>
          /\ pc' = after_device_flow(res, authority).pc
          /\ authority' = after_device_flow(res, authority).authority
          /\ token' = IF res = "token" THEN "access_token" ELSE token
          /\ last_error_detail' =
                 IF res = "token" THEN last_error_detail
                 ELSE [k |-> authority, cause |-> "error: description"]
    /\ UNCHANGED <<script, csv_exists, template_exists, error, reported,
                   folder_id, msgs, messages, out_file, written, rows, posted,
                   created_count, failed_count, folder_resp, tpl, msg, label>>

\* the for-loop ran out of authorities: raise RuntimeError(...)
AuthExhausted ==
    /\ pc = "try_authority"
    /\ authority > Len(AUTHORITIES)
    /\ error' = auth_failure(script, last_error_detail)
    /\ pc' = "raised"
    /\ UNCHANGED <<script, csv_exists, template_exists, authority,
                   last_error_detail, token, trace, reported, folder_id, msgs,
                   messages, out_file, written, rows, posted, created_count,
                   failed_count, folder_resp, tpl, msg, label>>

(***************************************************************************)
(* HTTP helpers                                                            *)
(***************************************************************************)
r_ok_below_500(r) == r.status_code < 500

\* requests.Response.ok
r_ok(r) == r.status_code < 400

\* _graph_get's RuntimeError(f"GET {path} failed ({r.status_code}): {r.text}")
graph_get_error(path, r) ==
    [type |-> "RuntimeError", path |-> path, status |-> r.status_code,
     text |-> r.text, detail |-> NoDetail, hints |-> {}]

first_or_none_last(vals) ==
    IF vals # <<>> THEN vals[Len(vals)] ELSE "None"

\* vals[0]["id"] if vals else None
first_or_none(vals) ==
    IF vals # <<>> THEN vals[1] ELSE "None"

folder_missing_never(fid) == FALSE

\* main's "if not folder_id"
folder_missing(fid) == fid = "None"

\* the folder lists a lookup may answer with: data.get("value", []) of a body
\* with up to MaxFolders folders (a body without "value" reads as the empty
\* list too)
FolderLists == SeqsUpTo(FolderIds, MaxFolders)

(***************************************************************************)
(* graph_demo.py: main                                                     *)
(***************************************************************************)
\* main() up to the call of acquire_token_with_diagnostics
MainDashboard ==
    /\ pc = "main"
    /\ script = "dashboard"
    /\ pc' = "try_authority"
    /\ authority' = 1
    /\ last_error_detail' = NoDetail
    /\ UNCHANGED <<script, csv_exists, template_exists, token, trace, error,
                   reported, folder_id, msgs, messages, out_file, written, rows,
                   posted, created_count, failed_count, folder_resp, tpl, msg,
                   label>>

\* me = _get_me(headers)
GetMe ==
    /\ pc = "authed"
    /\ script = "dashboard"
    /\ \E r \in GetResponses :
          /\ trace' = Append(trace, Call("GET /me", 0, r.text, r.status_code))
          /\ IF r_ok(r)
             THEN pc' = "find_folder" /\ error' = error
             ELSE pc' = "raised" /\ error' = graph_get_error("/me", r)
    /\ UNCHANGED <<script, csv_exists, template_exists, authority,
                   last_error_detail, token, reported, folder_id, msgs,
                   messages, out_file, written, rows, posted, created_count,
                   failed_count, folder_resp, tpl, msg, label>>

\* folder_id = _find_mail_folder_id(headers, DEMO_FOLDER_NAME) and the
\* "if not folder_id: print ERROR; sys.exit(1)" that follows it
FindFolderDashboard ==
    /\ pc = "find_folder"
    /\ script = "dashboard"
    /\ \E r \in GetResponses, vals \in FolderLists :
          /\ trace' = Append(trace, Call("GET /me/mailFolders", 0, r.text, r.status_code))
          /\ IF ~r_ok(r)
             THEN /\ pc' = "raised"
                  /\ error' = graph_get_error("/me/mailFolders", r)
                  /\ UNCHANGED <<folder_id, folder_resp, reported>>
             ELSE /\ folder_resp' = vals
                  /\ folder_id' = first_or_none(vals)
                  /\ error' = error
                  /\ IF folder_missing(first_or_none(vals))
                     THEN pc' = "exit" /\ reported' = "folder_not_found"
                     ELSE pc' = "list_messages" /\ reported' = reported
    /\ UNCHANGED <<script, csv_exists, template_exists, authority,
                   last_error_detail, token, msgs, messages, out_file, written,
                   rows, posted, created_count, failed_count, tpl, msg, label>>

\* msgs = _list_messages(headers, folder_id, TOP)
ListMessages ==
    /\ pc = "list_messages"
    /\ \E r \in GetResponses, ms \in SeqsUpTo(MsgPool, MaxMsgs) :
          /\ trace' = Append(trace, Call("GET /me/mailFolders/{id}/messages", 0,
                                         r.text, r.status_code))
          /\ IF r_ok(r)
             THEN pc' = "build_rows" /\ msgs' = ms /\ error' = error
             ELSE /\ pc' = "raised"
                  /\ msgs' = msgs
                  /\ error' = graph_get_error("/me/mailFolders/{id}/messages", r)
    /\ UNCHANGED <<script, csv_exists, template_exists, authority,
                   last_error_detail, token, reported, folder_id, messages,
                   out_file, written, rows, posted, created_count, failed_count,
                   folder_resp, tpl, msg, label>>

\* one element of main's messages list (receivedDateTime is not modelled)
dashboard_row(m) ==
    [status |-> _classify(m), subject |-> subject_or_empty(m),
     filed_dir |-> DEMO_FOLDER_NAME]

\* for m in msgs: messages.append({...})
BuildRows ==
    /\ pc = "build_rows"
    /\ messages' = [i \in 1..Len(msgs) |-> dashboard_row(msgs[i])]
    /\ pc' = "render"
    /\ UNCHANGED <<script, csv_exists, template_exists, authority,
                   last_error_detail, token, trace, error, reported, folder_id,
                   msgs, out_file, written, rows, posted, created_count,
                   failed_count, folder_resp, tpl, msg, label>>

(***************************************************************************)
(* render_tailwind_dashboard.  The template and the output are sequences   *)
(* of chunks: literal text, the two markers, and what replaces them.       *)
(***************************************************************************)
Chunk(kind, lbl, subject, filed_dir) ==
    [kind |-> kind, label |-> lbl, subject |-> subject, filed_dir |-> filed_dir]

Text == Chunk("text", "", <<>>, <<>>)

RunTimeMarker == Chunk("{RUN_TIME}", "", <<>>, <<>>)

ReportMarker == Chunk("<!-- REPORT_DATA -->", "", <<>>, <<>>)

Now == Chunk("now", "", <<>>, <<>>)

Newline == Chunk("newline", "", <<>>, <<>>)

\* "<tr><td colspan='4' ...>No emails were processed.</td></tr>"
Placeholder == Chunk("placeholder", "", <<>>, <<>>)

\* contents TEMPLATE_FILE may have: the usual shape, the bare marker, the
\* marker twice, and no report marker at all
Templates ==
    { <<Text, RunTimeMarker, Text, ReportMarker, Text>>,
      <<ReportMarker>>,
      <<Text, ReportMarker, ReportMarker>>,
      <<RunTimeMarker, Text>> }

\* html.escape on one character (quote=True)
EscapeChar(c) ==
    CASE c = "&" -> <<"&","a","m","p",";">>
      [] c = "<" -> <<"&","l","t",";">>
      [] c = ">" -> <<"&","g","t",";">>
      [] c = "\"" -> <<"&","q","u","o","t",";">>
      [] c = "'" -> <<"&","#","x","2","7",";">>
      [] OTHER -> <<c>>

RECURSIVE html_escape(_)
html_escape(s) ==
    IF s = <<>> THEN <<>> ELSE EscapeChar(Head(s)) \o html_escape(Tail(s))

\* {"filed": "Filed", "triage": "Triage", "skipped": "Skipped"}[m["status"]]
status_label(status) ==
    CASE status = "filed" -> "Filed"
      [] status = "triage" -> "Triage"
      [] status = "skipped" -> "Skipped"

\* the list rows_html built by the for-loop
rows_html(ms) ==
    [i \in 1..Len(ms) |->
        Chunk("status-badge", status_label(ms[i].status),
              html_escape(ms[i].subject), html_escape(ms[i].filed_dir))]

\* "\n".join(rows)
RECURSIVE join_newline(_)
join_newline(rs) ==
    IF rs = <<>> THEN <<>>
    ELSE IF Len(rs) = 1 THEN rs
    ELSE <<Head(rs), Newline>> \o join_newline(Tail(rs))

rows_block_placeholder_first(rs) == <<Placeholder>> \o join_newline(rs)

\* if not rows_html: rows_block = placeholder else "\n".join(rows_html)
rows_block(rs) ==
    IF rs = <<>> THEN <<Placeholder>> ELSE join_newline(rs)

\* str.replace(marker, block): every occurrence of the marker
RECURSIVE replace(_, _, _)
replace(t, marker, block) ==
    IF t = <<>> THEN <<>>
    ELSE (IF Head(t) = marker THEN block ELSE <<Head(t)>>)
         \o replace(Tail(t), marker, block)

FileNotFound ==
    [type |-> "FileNotFoundError", path |-> "", status |-> 0,
     text |-> "Template not found", detail |-> NoDetail, hints |-> {}]

\* render_tailwind_dashboard(messages, ...) and main's final print
RenderDashboard ==
    /\ pc = "render"
    /\ IF ~template_exists
       THEN /\ pc' = "raised"
            /\ error' = FileNotFound
            /\ UNCHANGED <<trace, tpl, out_file, written>>
       ELSE \E t \in Templates :
            /\ tpl' = t
            /\ out_file' = replace(replace(t, RunTimeMarker, <<Now>>),
                                   ReportMarker, rows_block(rows_html(messages)))
            /\ written' = TRUE
            /\ trace' = trace \o << Call("read TEMPLATE_FILE", 0, "", 0),
                                    Call("write OUT_FILE", 0, "", 0),
                                    Call("webbrowser.open", 0, "", 0) >>
            /\ pc' = "done"
            /\ error' = error
    /\ UNCHANGED <<script, csv_exists, template_exists, authority,
                   last_error_detail, token, reported, folder_id, msgs,
                   messages, rows, posted, created_count, failed_count,
                   folder_resp, msg, label>>

(***************************************************************************)
(* create_test_emails.py                                                   *)
(***************************************************************************)
csv_check_skipped(exists) == TRUE

\* main's "if not os.path.exists(CSV_FILE): ... return" lets the run go on
csv_check_passes(exists) == exists

\* main() up to the call of acquire_token_with_diagnostics
MainSeeder ==
    /\ pc = "main"
    /\ script = "seeder"
    /\ IF csv_check_passes(csv_exists)
       THEN /\ pc' = "try_authority"
            /\ authority' = 1
            /\ last_error_detail' = NoDetail
            /\ reported' = reported
       ELSE /\ pc' = "returned"
            /\ reported' = "csv_not_found"
            /\ UNCHANGED <<authority, last_error_detail>>
    /\ UNCHANGED <<script, csv_exists, template_exists, token, trace, error,
                   folder_id, msgs, messages, out_file, written, rows, posted,
                   created_count, failed_count, folder_resp, tpl, msg, label>>

\* find_mail_folder_id's RuntimeError(f"Failed to find folder: {r.text}")
find_folder_error(r) ==
    [type |-> "RuntimeError", path |-> "", status |-> 0, text |-> r.text,
     detail |-> NoDetail, hints |-> {}]

\* folder_id = find_mail_folder_id(headers, DEMO_FOLDER_NAME) and the
\* "if not folder_id: print ERROR; return" that follows it
FindFolderSeeder ==
    /\ pc = "authed"
    /\ script = "seeder"
    /\ \E r \in GetResponses, vals \in FolderLists :
          /\ trace' = Append(trace, Call("GET /me/mailFolders", 0, r.text, r.status_code))
          /\ IF ~r_ok(r)
             THEN /\ pc' = "raised"
                  /\ error' = find_folder_error(r)
                  /\ UNCHANGED <<folder_id, folder_resp, reported>>
             ELSE /\ folder_resp' = vals
                  /\ folder_id' = first_or_none(vals)
                  /\ error' = error
                  /\ IF folder_missing(first_or_none(vals))
                     THEN pc' = "returned" /\ reported' = "folder_not_found"
                     ELSE pc' = "read_csv" /\ reported' = reported
    /\ UNCHANGED <<script, csv_exists, template_exists, authority,
                   last_error_detail, token, msgs, messages, out_file, written,
                   rows, posted, created_count, failed_count, tpl, msg, label>>

CsvNotFound ==
    [type |-> "FileNotFoundError", path |-> "", status |-> 0,
     text |-> "No such file", detail |-> NoDetail, hints |-> {}]

\* parse_csv_and_create_emails up to the for-loop: the counters, open(),
\* csv.DictReader.  open() raises when the file is not there.
ReadCsv ==
    /\ pc = "read_csv"
    /\ created_count' = 0
    /\ failed_count' = 0
    /\ IF csv_exists
       THEN /\ \E rs \in SeqsUpTo(CsvRows, MaxRows) : rows' = rs
            /\ trace' = Append(trace, Call("read CSV_FILE", 0, "", 0))
            /\ pc' = "create_loop"
            /\ error' = error
       ELSE /\ pc' = "raised"
            /\ error' = CsvNotFound
            /\ UNCHANGED <<rows, trace>>
    /\ UNCHANGED <<script, csv_exists, template_exists, authority,
                   last_error_detail, token, reported, folder_id, msgs,
                   messages, out_file, written, posted, folder_resp, tpl, msg,
                   label>>

\* the message dict create_email_in_folder builds from email_data
email_payload(row) ==
    [subject |-> row.Subject,
     content |-> row.Body,
     address |-> row.FromEmail,
     name |-> row.FromName,
     receivedDateTime |-> row.Date \o "T09:00:00Z",
     isDraft |-> FALSE]

\* create_email_in_folder's result is truthy: r.json() of an ok response
result_truthy(r) == r_ok(r) /\ r.json_truthy

counts_after_only_created(created, failed, ok) ==
    IF ok THEN <<created + 1, failed>> ELSE <<created, failed>>

\* if result: created_count += 1 else: failed_count += 1
counts_after(created, failed, ok) ==
    IF ok THEN <<created + 1, failed>> ELSE <<created, failed + 1>>

\* one iteration of "for row in reader"
CreateEmail ==
    /\ pc = "create_loop"
    /\ Len(posted) < Len(rows)
    /\ LET row == rows[Len(posted) + 1]
       IN  \E r \in PostResponses :
             /\ posted' = Append(posted, email_payload(row))
             /\ trace' = Append(trace, Call("POST /me/mailFolders/{id}/messages",
                                            0, r.text, r.status_code))
             /\ created_count' = counts_after(created_count, failed_count,
                                              result_truthy(r))[1]
             /\ failed_count' = counts_after(created_count, failed_count,
                                             result_truthy(r))[2]
    /\ UNCHANGED <<script, pc, csv_exists, template_exists, authority,
                   last_error_detail, token, error, reported, folder_id, msgs,
                   messages, out_file, written, rows, folder_resp, tpl, msg,
                   label>>

\* the reader is exhausted: return created_count, failed_count; main prints
SeederDone ==
    /\ pc = "create_loop"
    /\ Len(posted) = Len(rows)
    /\ pc' = "done"
    /\ UNCHANGED <<script, csv_exists, template_exists, authority,
                   last_error_detail, token, trace, error, reported, folder_id,
                   msgs, messages, out_file, written, rows, posted,
                   created_count, failed_count, folder_resp, tpl, msg, label>>

(***************************************************************************)
(* Specification of the two scripts                                        *)
(***************************************************************************)
Init ==
    /\ script \in {"dashboard", "seeder"}
    /\ pc = "main"
    /\ csv_exists \in (IF script = "seeder" THEN BOOLEAN ELSE {FALSE})
    /\ template_exists \in (IF script = "dashboard" THEN BOOLEAN ELSE {FALSE})
    /\ authority = 0
    /\ last_error_detail = NoDetail
    /\ token = "None"
    /\ trace = <<>>
    /\ error = NoError
    /\ reported = ""
    /\ folder_id = "None"
    /\ msgs = <<>>
    /\ messages = <<>>
    /\ out_file = <<>>
    /\ written = FALSE
    /\ rows = <<>>
    /\ posted = <<>>
    /\ created_count = 0
    /\ failed_count = 0
    /\ folder_resp = <<>>
    /\ tpl = <<>>
    /\ msg = NoMsg
    /\ label = "None"

Next ==
    \/ MainDashboard
    \/ MainSeeder
    \/ TryAuthority
    \/ AcquireSilent
    \/ InitiateDeviceFlow
    \/ DeviceFlowWait
    \/ AuthExhausted
    \/ GetMe
    \/ FindFolderDashboard
    \/ ListMessages
    \/ BuildRows
    \/ RenderDashboard
    \/ FindFolderSeeder
    \/ ReadCsv
    \/ CreateEmail
    \/ SeederDone

Spec == Init /\ [][Next]_vars

(***************************************************************************)
(* Specification of the classifier alone: any message record in, label out *)
(***************************************************************************)
InitClassify ==
    /\ script = "classify"
    /\ pc = "classify"
    /\ csv_exists = FALSE
    /\ template_exists = FALSE
    /\ authority = 0
    /\ last_error_detail = NoDetail
    /\ token = "None"
    /\ trace = <<>>
    /\ error = NoError
    /\ reported = ""
    /\ folder_id = "None"
    /\ msgs = <<>>
    /\ messages = <<>>
    /\ out_file = <<>>
    /\ written = FALSE
    /\ rows = <<>>
    /\ posted = <<>>
    /\ created_count = 0
    /\ failed_count = 0
    /\ folder_resp = <<>>
    /\ tpl = <<>>
    /\ msg \in MsgInputs
    /\ label = "None"

\* status = _classify(m)
Classify ==
    /\ pc = "classify"
    /\ label' = _classify(msg)
    /\ pc' = "classified"
    /\ UNCHANGED <<script, csv_exists, template_exists, authority,
                   last_error_detail, token, trace, error, reported, folder_id,
                   msgs, messages, out_file, written, rows, posted,
                   created_count, failed_count, folder_resp, tpl, msg>>

NextClassify == Classify

SpecClassify == InitClassify /\ [][NextClassify]_vars

(***************************************************************************)
(* Properties                                                              *)
(***************************************************************************)
AuthOps == {"get_accounts", "acquire_token_silent", "initiate_device_flow",
            "acquire_token_by_device_flow"}

IsAuthCall(e) == e.op \in AuthOps

IsGraphRequest(e) == e.code > 0

YieldsToken(e) ==
    /\ e.op \in {"acquire_token_silent", "acquire_token_by_device_flow"}
    /\ e.res = "token"

HasSubstring(s, w) ==
    \E i \in 1..Len(s) : \E j \in i..Len(s) : SubSeq(s, i, j) = w

ClaimedFiledWords ==
    { <<"q","u","o","t","e">>, <<"p","o","l","i","c","y">>,
      <<"b","i","n","d","e","r">>,
      <<"e","n","d","o","r","s","e","m","e","n","t">> }

\* C1: _classify returns Filed when the lower-cased subject contains one of
\* quote/policy/binder/endorsement, whatever the attachment flag and whether
\* or not it contains claim; otherwise Triage exactly when the message has
\* attachments or the lower-cased subject contains claim; otherwise Skipped.
\* An absent (or null) subject counts as the empty string.
C1_ClassifyRule ==
    pc = "classified" =>
        LET s == IF msg.subject_kind = "str" THEN lower(msg.subject) ELSE <<>>
            filedWord == \E w \in ClaimedFiledWords : HasSubstring(s, w)
            triageCase == msg.attach = "true" \/ HasSubstring(s, <<"c","l","a","i","m">>)
        IN  /\ filedWord => label = "filed"
            /\ ~filedWord => (label = "triage" <=> triageCase)
            /\ (~filedWord /\ ~triageCase) => label = "skipped"

\* a mixed-case subject with a Filed keyword split over fragments, with claim
\* and with attachments, classified Filed
C1_Witness ==
    /\ pc = "classified"
    /\ label = "filed"
    /\ msg.attach = "true"
    /\ msg.subject = <<"Q","u","o","t","e","c","l","a","i","m">>

\* C2: the authorities are tried in listed order, each at most once, and the
\* routine returns on the first token: after a call that yielded a token no
\* auth call follows, and no authority is tried twice.
C2_FirstTokenWins ==
    /\ \A i \in 1..Len(trace) :
          IsAuthCall(trace[i]) => trace[i].k \in 1..Len(AUTHORITIES)
    /\ \A i \in 1..Len(trace) : \A j \in (i + 1)..Len(trace) :
          /\ (IsAuthCall(trace[i]) /\ IsAuthCall(trace[j]))
                => trace[i].k <= trace[j].k
          /\ (trace[i].op = "get_accounts" /\ trace[j].op = "get_accounts")
                => trace[i].k < trace[j].k
          /\ YieldsToken(trace[i]) => ~IsAuthCall(trace[j])
    /\ (\E i \in 1..Len(trace) : YieldsToken(trace[i]))
          => (token = "access_token"
              /\ pc \notin {"try_authority", "silent", "initiate", "device_wait"})

\* the first authority yielded a token from the device-code exchange and the
\* run went on to a Graph request without touching the second authority
C2_Witness ==
    /\ Len(trace) >= 2
    /\ \E i \in 1..(Len(trace) - 1) :
          /\ trace[i].op = "acquire_token_by_device_flow"
          /\ trace[i].res = "token"
          /\ trace[i].k = 1
          /\ IsGraphRequest(trace[i + 1])

AuthFailed == pc = "raised" /\ authority > Len(AUTHORITIES)

\* C3: in both scripts, when every authority is exhausted without a token the
\* routine raises an error that names the failure cause of the last authority
\* tried and carries the four remediation hints; and it raises only when no
\* authority yielded a token.
C3_AuthFailureDiagnostic ==
    /\ (pc = "try_authority" /\ authority > Len(AUTHORITIES)) => token = "None"
    /\ AuthFailed =>
          /\ error.type = "RuntimeError"
          /\ error.detail.k = Len(AUTHORITIES)
          /\ error.detail.cause # "None"
          /\ error.hints = {"public_client_flows", "personal_accounts",
                            "client_id", "scopes"}
          /\ token = "None"
          /\ \A i \in 1..Len(trace) : ~YieldsToken(trace[i])

MissingFileReported ==
    reported = "csv_not_found" \/ error.type = "FileNotFoundError"

\* C4 (as claimed): in each flow, when the required local file is missing the
\* error is reported before any authentication call or Graph request.
C4_MissingFileBeforeNetwork ==
    MissingFileReported =>
        \A i \in 1..Len(trace) : ~IsAuthCall(trace[i]) /\ ~IsGraphRequest(trace[i])

\* C4 (amended): in the seeder flow a missing CSV file is reported and the run
\* stops before any authentication call or Graph request.  In the dashboard
\* flow a missing template is reported by render_tailwind_dashboard, after
\* authentication and the three Graph reads succeeded, and before the output
\* file is written or opened.
C4_MissingFileAmended ==
    /\ (script = "seeder" /\ ~csv_exists) =>
          /\ trace = <<>>
          /\ pc \in {"main", "returned"}
          /\ pc = "returned" => reported = "csv_not_found"
          /\ error = NoError
    /\ (script = "dashboard" /\ ~template_exists) =>
          /\ ~written
          /\ \A i \in 1..Len(trace) :
                trace[i].op \notin {"write OUT_FILE", "webbrowser.open"}
          /\ pc \notin {"done"}
    /\ (script = "dashboard" /\ error.type = "FileNotFoundError") =>
          /\ ~template_exists
          /\ pc = "raised"
          /\ token = "access_token"
          /\ \A op \in {"GET /me", "GET /me/mailFolders",
                        "GET /me/mailFolders/{id}/messages"} :
                \E i \in 1..Len(trace) : trace[i].op = op /\ trace[i].code < 400

\* the dashboard run raised "Template not found" after its network calls
C4_Witness ==
    /\ script = "dashboard"
    /\ error.type = "FileNotFoundError"
    /\ \E i \in 1..Len(trace) : IsGraphRequest(trace[i])

PostOp == "POST /me/mailFolders/{id}/messages"

\* C5: every CSV row gets exactly one creation request, in row order, whether
\* or not earlier creations got a non-success status; each request makes
\* exactly one of created_count, failed_count grow by one; at the end
\* created_count + failed_count is the number of rows.
C5_OneRequestPerRow ==
    /\ [](/\ Len(posted) <= Len(rows)
          /\ \A i \in 1..Len(posted) :
                /\ posted[i].subject = rows[i].Subject
                /\ posted[i].content = rows[i].Body
                /\ posted[i].address = rows[i].FromEmail
                /\ posted[i].name = rows[i].FromName
                /\ posted[i].receivedDateTime = rows[i].Date \o "T09:00:00Z"
          /\ Len(SelectSeq(trace, LAMBDA e : e.op = PostOp)) = Len(posted)
          /\ created_count + failed_count = Len(posted)
          /\ (script = "seeder" /\ pc = "done") =>
                /\ Len(posted) = Len(rows)
                /\ created_count + failed_count = Len(rows))
    /\ [][ /\ posted' # posted =>
                /\ Len(posted') = Len(posted) + 1
                /\ \/ created_count' = created_count + 1 /\ failed_count' = failed_count
                   \/ created_count' = created_count /\ failed_count' = failed_count + 1
           /\ posted' = posted =>
                (pc = "create_loop" =>
                    created_count' = created_count /\ failed_count' = failed_count)
         ]_vars

\* the first row's creation failed with a non-success status, the second row
\* was still created, and the run finished
C5_Witness ==
    /\ script = "seeder"
    /\ pc = "done"
    /\ Len(rows) = 2
    /\ rows[1] # rows[2]
    /\ failed_count = 1
    /\ created_count = 1
    /\ \E i \in 1..(Len(trace) - 1) :
          /\ trace[i].op = PostOp /\ trace[i].code >= 400
          /\ trace[i + 1].op = PostOp /\ trace[i + 1].code < 400

FolderLookups == SelectSeq(trace, LAMBDA e : e.op = "GET /me/mailFolders")

FolderLookupSucceeded ==
    \E i \in 1..Len(trace) :
        trace[i].op = "GET /me/mailFolders" /\ trace[i].code < 400

\* C6: folder resolution issues a single list request; on a successful
\* response with no folder it returns None without raising, and with one or
\* more folders it returns the id of the first one in the order returned.
C6_FolderResolution ==
    /\ Len(FolderLookups) <= 1
    /\ FolderLookupSucceeded =>
          /\ folder_resp = <<>> => (folder_id = "None" /\ error = NoError)
          /\ folder_resp # <<>> => folder_id = folder_resp[1]

\* two different folders matched and the first one's id was returned
C6_Witness ==
    /\ FolderLookupSucceeded
    /\ Len(folder_resp) = 2
    /\ folder_resp[1] # folder_resp[2]
    /\ folder_id = folder_resp[1]

FolderNotFound == FolderLookupSucceeded /\ folder_id = "None"

\* C7: when the resolver returns not-found the run is aborted with a reported
\* error: the dashboard issues no message-list request and writes or opens no
\* dashboard file, the seeder does not read the CSV and posts no message.
C7_FolderNotFoundAborts ==
    FolderNotFound =>
        /\ reported = "folder_not_found"
        /\ pc = IF script = "dashboard" THEN "exit" ELSE "returned"
        /\ trace[Len(trace)].op = "GET /me/mailFolders"
        /\ \A i \in 1..Len(trace) :
              trace[i].op \notin {"GET /me/mailFolders/{id}/messages",
                                  "write OUT_FILE", "webbrowser.open",
                                  "read CSV_FILE", PostOp}
        /\ ~written
        /\ posted = <<>>
        /\ rows = <<>>

\* the dashboard run found no folder and exited
C7_Witness ==
    /\ script = "dashboard"
    /\ FolderNotFound
    /\ reported = "folder_not_found"

BadgeRows(out) == SelectSeq(out, LAMBDA c : c.kind = "status-badge")

PlaceholderRows(out) == SelectSeq(out, LAMBDA c : c.kind = "placeholder")

MarkerCount(t) == Len(SelectSeq(t, LAMBDA c : c.kind = "<!-- REPORT_DATA -->"))

\* C8: with an empty message sequence the renderer substitutes exactly the
\* one placeholder row and no status-badge row for the report marker; with a
\* non-empty sequence exactly one status-badge row per message, in input
\* order, and no placeholder row.
C8_RenderRows ==
    written =>
        LET n == Len(messages)
            badges == BadgeRows(out_file)
        IN  /\ MarkerCount(out_file) = 0
            /\ n = 0 =>
                  /\ badges = <<>>
                  /\ Len(PlaceholderRows(out_file)) = MarkerCount(tpl)
            /\ n > 0 =>
                  /\ PlaceholderRows(out_file) = <<>>
                  /\ Len(badges) = n * MarkerCount(tpl)
                  /\ \A j \in 1..Len(badges) :
                        LET m == messages[((j - 1) % n) + 1]
                        IN  /\ badges[j].subject = html_escape(m.subject)
                            /\ badges[j].label =
                                  (CASE m.status = "filed" -> "Filed"
                                     [] m.status = "triage" -> "Triage"
                                     [] m.status = "skipped" -> "Skipped")

\* two different messages were rendered into a template with one marker
C8_Witness ==
    /\ written
    /\ Len(messages) = 2
    /\ messages[1].status # messages[2].status
    /\ MarkerCount(tpl) = 1
    /\ Len(BadgeRows(out_file)) = 2

\* the renderer ran on an empty message list
C8_WitnessEmpty ==
    /\ written
    /\ messages = <<>>
    /\ MarkerCount(tpl) = 1
    /\ Len(PlaceholderRows(out_file)) = 1

\* C9: in the dashboard flow a non-success HTTP response to /me, the folder
\* lookup or the message listing is fatal: the error carries the status and
\* the body text, and no Graph request, classification, or dashboard write
\* or open follows it.
C9_ReadFailureFatal ==
    script = "dashboard" =>
        \A i \in 1..Len(trace) :
            (IsGraphRequest(trace[i]) /\ trace[i].code >= 400) =>
                /\ i = Len(trace)
                /\ pc = "raised"
                /\ error.type = "RuntimeError"
                /\ error.status = trace[i].code
                /\ error.text = trace[i].res
                /\ messages = <<>>
                /\ ~written

\* the message listing answered 500 after /me and the folder lookup succeeded
C9_Witness ==
    /\ script = "dashboard"
    /\ pc = "raised"
    /\ Len(trace) >= 3
    /\ trace[Len(trace)].op = "GET /me/mailFolders/{id}/messages"
    /\ trace[Len(trace)].code = 500
    /\ error.status = 500

SilentWithoutToken(e) ==
    \/ e.op = "get_accounts" /\ e.res = "none"
    \/ e.op = "acquire_token_silent" /\ e.res # "token"

\* C10: on each authority a silent acquisition without a token (no cached
\* account, a result without access token, a raised exception) neither aborts
\* the routine nor moves to the next authority: the device-code exchange is
\* initiated on the same authority next; and the device-code wait is entered
\* only after initiation returned a user code and the message was displayed.
C10_SilentThenDeviceFlow ==
    /\ \A i \in 1..Len(trace) :
          SilentWithoutToken(trace[i]) =>
              IF i = Len(trace)
              THEN pc = "initiate" /\ authority = trace[i].k /\ error = NoError
              ELSE /\ trace[i + 1].op = "initiate_device_flow"
                   /\ trace[i + 1].k = trace[i].k
    /\ \A i \in 1..Len(trace) :
          trace[i].op = "acquire_token_by_device_flow" =>
              /\ i >= 3
              /\ trace[i - 1].op = "print_message"
              /\ trace[i - 1].k = trace[i].k
              /\ trace[i - 2].op = "initiate_device_flow"
              /\ trace[i - 2].res = "user_code"
              /\ trace[i - 2].k = trace[i].k
    /\ pc = "device_wait" =>
          /\ trace[Len(trace)].op = "initiate_device_flow"
          /\ trace[Len(trace)].res = "user_code"
          /\ trace[Len(trace)].k = authority

\* the silent acquisition raised on the second authority and the device-code
\* exchange was then run on that authority
C10_Witness ==
    \E i \in 1..(Len(trace) - 3) :
        /\ trace[i].op = "acquire_token_silent"
        /\ trace[i].res = "exception"
        /\ trace[i].k = 2
        /\ trace[i + 1].op = "initiate_device_flow"
        /\ trace[i + 1].k = 2
        /\ trace[i + 3].op = "acquire_token_by_device_flow"

====
